---- MODULE Spec2Model ----
(***************************************************************************)
(* Model of the chorde coherence protocol: CoherenceManager                *)
(* (lib/chorde/mq/coherence.py) and CoherentWrapperClient / CoherentDefer  *)
(* (lib/chorde/clients/coherent.py).                                        *)
(*                                                                         *)
(* Every node runs one CoherenceManager over one private cache, which is   *)
(* also the client wrapped by the node's CoherentWrapperClient.  The bus   *)
(* (ipsub) is not part of the sources; it is modelled from its contract:  *)
(* best-effort delivery, FIFO per source and subscription, bounded queue.  *)
(*                                                                         *)
(* The in-process store (InprocCacheClient, lib/chorde/clients/inproc.py,  *)
(* with get of lib/chorde/clients/base.py) and the namespace wrappers      *)
(* (DecoratedWrapper / NamespaceWrapper, base.py) are modelled next to it,  *)
(* each with specifications of its own.                                    *)
(***************************************************************************)
EXTENDS Integers, Sequences, FiniteSets, TLC

\* ---------------------------------------------------------------- bounds
MaxNow == 2
MaxTtl == 1
MaxRev == 1
MaxTxid == 2
MaxInFlight == 2
MaxFailovers == 1
MaxTxidFailover == 1

\* ------------------------------------------------------- program constants
TxidCycle == 2147483647
QueryRetries == 3
RevmarkTtl == 3600

\* ------------------------------------------------------------- universe
Nodes == {"A", "B"}
Keys == {"k1", "k2"}
\* the key the nodes contend for
CallKeys == {"k1"}
Procs == {"a1", "b1"}

NodeOf(p) == IF p = "a1" THEN "A" ELSE "B"

\* Python None for a table entry, a JSON null reply, a None return value.
None == <<>>
\* pending.get(key) is None / the txid of a request that asks for no lock.
NoTxid == -1
OOB_UPDATE == <<"OOB_UPDATE">>

VARIABLES
    synchronous,    \* node -> CoherenceManager.synchronous
    is_broker,      \* node -> ipsub.is_broker
    listening,      \* node -> subscribed to pend / done / pendq
    pending,        \* node -> key -> txid or NoTxid
    group_pending,  \* node -> key -> <<txid, contact>> or None
    txid,           \* node -> next value of the _txid iterator
    stale,          \* key -> what expired() answers (shared cache is stale)
    private,        \* node -> keys held by the private cache
    bus,            \* messages in flight, in publication order
    pc,             \* proc -> position
    loc,            \* proc -> locals of the running call
    inbox,          \* proc -> <<reply, rec>> from the signaler, or <<>>
    sigOn,          \* proc -> signaler subscribed to UPDATE_ACKNOWLEDGED
    waiters,        \* node -> txids whose SyncWaiter is subscribed to delack
    tenures,        \* history: how many times a node entered the broker role
    ev,             \* history: the last operation that completed
    retained,       \* history: node -> group_pending as it was when the node last left the broker role
    store,          \* InprocCacheClient.store: key -> <<value, expiry>> or None
    now,            \* what time.time() returns
    call,           \* thread -> the store operation it runs or ran last
    out,            \* history: the last store operation that completed
    hist,           \* history: key -> the entry the operations so far installed
    nstore,         \* the client shared by the namespace wrappers: key -> entry
    wrap,           \* wrapper -> built, NamespaceWrapper.revision
    stored,         \* history: namespace -> keys stored through its wrappers
    nev             \* history: the last wrapper operation that completed

\* the coherence protocol's variables
cvars == <<synchronous, is_broker, listening, pending, group_pending, txid,
           stale, private, bus, pc, loc, inbox, sigOn, waiters,
           tenures, ev, retained>>

\* the in-process store's variables
svars == <<store, now, call, out, hist>>

\* the namespace wrappers' variables
nvars == <<nstore, wrap, stored, nev>>

vars == <<cvars, retained, svars, nvars>>

\* ---------------------------------------------------------------- helpers
\* p2p_pub_binds = [ipsub_.identity]
Contact(n) == <<n>>

\* the txid property: read the iterator, then advance it
NextTxid(t) == (t + 1) % TxidCycle

\* rec is history carried by a reply: the broker's entry for the key right
\* after it handled the request
Msg(pfx, src, dst, t, keys, contact, lock, reply) ==
    [pfx |-> pfx, src |-> src, dst |-> dst, txid |-> t, keys |-> keys,
     contact |-> contact, lock |-> lock, reply |-> reply, rec |-> None]

\* messages of one source on one subscription form a class; the bus keeps
\* the classes in a fixed order and each class in publication order
Rank(m) ==
    LET a == CASE m.pfx = "pendq" -> 0 [] m.pfx = "ack" -> 1
               [] m.pfx = "done" -> 2 [] m.pfx = "del" -> 3
               [] m.pfx = "delack" -> 4 [] m.pfx = "pend" -> 5
               [] OTHER -> 6
        b == IF m.src = "A" THEN 0 ELSE 1
        c == IF m.dst = "A" THEN 0 ELSE IF m.dst = "B" THEN 1 ELSE 2
    IN a * 6 + b * 3 + c

Insert(b, m) ==
    LET n == Cardinality({j \in 1..Len(b) : Rank(b[j]) <= Rank(m)})
    IN [j \in 1..(Len(b) + 1) |->
           IF j <= n THEN b[j] ELSE IF j = n + 1 THEN m ELSE b[j - 1]]

\* ipsub.publish: a full queue drops the message (high-water mark)
Publish(b, m) == IF Len(b) < MaxInFlight THEN Insert(b, m) ELSE b

\* a broadcast reaches every subscribed node: one copy per node
RECURSIVE PublishAll(_, _, _)
PublishAll(b, m, dsts) ==
    IF dsts = {} THEN b
    ELSE LET d == CHOOSE x \in dsts : TRUE
         IN PublishAll(Publish(b, [m EXCEPT !.dst = d]), m, dsts \ {d})

RemoveAt(b, i) == [j \in 1..(Len(b) - 1) |-> IF j < i THEN b[j] ELSE b[j + 1]]

\* FIFO by source on one subscription, no order across subscriptions
Deliverable(b, i) == \A j \in 1..(i - 1) : Rank(b[j]) # Rank(b[i])

Event(op, who, key, t, rv, via, lock) ==
    [op |-> op, who |-> who, key |-> key, txid |-> t, rv |-> rv, via |-> via,
     lock |-> lock]

\* a step that leaves its trace in pc, loc or bus records no event
Quiet == Event("-", "-", "k1", NoTxid, None, "-", FALSE)

NoLoc == [op |-> "-", key |-> "k1", lock |-> FALSE, txid |-> NoTxid,
          i |-> 0, npub |-> 0, rv |-> None, computed |-> FALSE,
          calls |-> 0]

\* ------------------------------------------------ in-process store: data
Values == {"v1", "v2"}
Threads == {"s1", "s2"}
Ttls == 0..MaxTtl

\* no default given (base.NONE) / a default given
NoDefault == "NONE"
Defaults == {NoDefault, "dflt"}

\* results: True / False, a CacheMissError raised, a hit or a miss swallowed
True == <<"True">>
False == <<"False">>
Miss == <<"CacheMissError">>

NoCall == [op |-> "-", step |-> "idle", key |-> "k1", val |-> "v1", arg |-> 0,
           dflt |-> NoDefault, now |-> 0, cur |-> None, rv |-> None]

NoStore == [k \in Keys |-> None]

\* the store as the constructor leaves it, no operation under way
StoreIdle ==
    /\ store = NoStore
    /\ now = 0
    /\ call = [t \in Threads |-> NoCall]
    /\ out = NoCall
    /\ hist = NoStore

\* ---------------------------------------------- namespace wrappers: data
Namespaces == {"nsA", "nsB"}
\* two wrappers of namespace nsA, one of nsB, over one client
Wrappers == {"wa", "wa2", "wb"}

Namespace(w) == IF w = "wb" THEN "nsB" ELSE "nsA"

\* the keys the wrappers are called with
NsKeys == {"k1"}

\* base.py line 308: the key the revision of a namespace is kept under
RevKey(ns) == <<ns, "REVMARK">>

\* the keys of the shared client
DKeys == (Namespaces \X (0..MaxRev) \X NsKeys) \cup {RevKey(ns) : ns \in Namespaces}

NoWrap == [built |-> FALSE, revision |-> 0]

NsEvent(op, w, k, rv) == [op |-> op, who |-> w, key |-> k, rv |-> rv]

NsQuiet == NsEvent("-", "-", "k1", None)

\* an empty shared client, no wrapper constructed yet
NsIdle ==
    /\ nstore = [dk \in DKeys |-> None]
    /\ wrap = [w \in Wrappers |-> NoWrap]
    /\ stored = [ns \in Namespaces |-> {}]
    /\ nev = NsQuiet

\* ------------------------------------------------------------------- Init
InitProtocol ==
    /\ synchronous = [n \in Nodes |-> n = "B"]
    /\ is_broker = [n \in Nodes |-> n = "A"]
    /\ listening = [n \in Nodes |-> n = "A"]
    /\ pending = [n \in Nodes |-> [k \in Keys |-> NoTxid]]
    /\ group_pending = [n \in Nodes |-> [k \in Keys |-> None]]
    /\ txid = [n \in Nodes |-> 0]
    /\ stale = [k \in Keys |-> TRUE]
    /\ private = [n \in Nodes |-> CallKeys]
    /\ bus = <<>>
    /\ pc = [p \in Procs |-> "idle"]
    /\ loc = [p \in Procs |-> NoLoc]
    /\ inbox = [p \in Procs |-> None]
    /\ sigOn = [p \in Procs |-> FALSE]
    /\ waiters = [n \in Nodes |-> {}]
    /\ tenures = 1
    /\ ev = Quiet
    /\ retained = [n \in Nodes |-> [k \in Keys |-> None]]

Init == InitProtocol /\ StoreIdle /\ NsIdle

\* ------------------------------------------------- _query_pending_locally
\* a lookup that consults group_pending only
LocalAnswerSkipsPending(n, k) ==
    IF group_pending[n][k] # None THEN group_pending[n][k][2]
    ELSE IF stale[k] THEN None
    ELSE OOB_UPDATE

\* lines 238-252 up to the lock: the value returned, from the tables and
\* expired() as the call reads them
LocalAnswer(n, k) ==
    IF group_pending[n][k] # None THEN group_pending[n][k][2]
    ELSE IF pending[n][k] # NoTxid THEN Contact(n)
    ELSE IF stale[k] THEN None
    ELSE OOB_UPDATE

\* does the call go on to lines 247-249 ?
LocalWillLock(n, k, lock) == LocalAnswer(n, k) = None /\ lock

\* the read half of _query_pending_locally, run by proc p on node n
LocalCheck(p, n, k, lock, op, t, via) ==
    IF LocalWillLock(n, k, lock)
    THEN /\ pc' = [pc EXCEPT ![p] = "locallock"]
         /\ loc' = [loc EXCEPT ![p] = [NoLoc EXCEPT !.op = op, !.key = k,
                        !.lock = lock, !.txid = t, !.rv = <<via>>]]
         /\ ev' = Quiet
    ELSE /\ pc' = [pc EXCEPT ![p] = "returned"]
         /\ loc' = [loc EXCEPT ![p] = [NoLoc EXCEPT !.op = op, !.key = k,
                        !.lock = lock, !.txid = t, !.rv = LocalAnswer(n, k)]]
         /\ ev' = Event("query_pending", p, k, t, LocalAnswer(n, k), via, lock)

\* lines 247-250: fresh txid into group_pending and pending, return None
LocalLock(p) ==
    LET n == NodeOf(p)
        k == loc[p].key
        t == txid[n]
    IN /\ pc[p] = "locallock"
       /\ txid' = [txid EXCEPT ![n] = NextTxid(t)]
       /\ group_pending' = [group_pending EXCEPT ![n][k] = <<t, Contact(n)>>]
       /\ pending' = [pending EXCEPT ![n][k] = t]
       /\ pc' = [pc EXCEPT ![p] = "returned"]
       /\ loc' = [loc EXCEPT ![p].txid = t, ![p].rv = None]
       /\ ev' = Event("query_pending", p, k, t, None, loc[p].rv[1], TRUE)
       /\ UNCHANGED <<synchronous, is_broker, listening, stale, private, bus,
                      inbox, sigOn, waiters, tenures, retained, svars, nvars>>

\* ------------------------------------------------------- query_pending
PendqMsg(n, k, t, lock) ==
    Msg("pendq", n, "broker", t, <<k>>, Contact(n), lock, None)

\* lines 271-299 (and undefer, lines 54-59, when op = "put_coherently"):
\* the broker answers from its own tables; a listener draws a txid,
\* subscribes its signaler and publishes the request.  A bus that refuses
\* the connection hands the call to _query_pending_locally (lines 82-91).
StartQuery(p, k, lock, op) ==
    LET n == NodeOf(p)
        t == IF lock THEN txid[n] ELSE NoTxid
    IN /\ pc[p] = "idle"
       /\ op = "put_coherently" => (lock /\ stale[k])
       /\ IF is_broker[n]
          THEN /\ LocalCheck(p, n, k, lock, op, NoTxid, "local")
               /\ UNCHANGED <<txid, bus, sigOn, inbox>>
          ELSE /\ txid' = [txid EXCEPT ![n] = IF lock THEN NextTxid(t) ELSE t]
               /\ \/ /\ bus' = Publish(bus, PendqMsg(n, k, t, lock))
                     /\ sigOn' = [sigOn EXCEPT ![p] = TRUE]
                     /\ inbox' = [inbox EXCEPT ![p] = <<>>]
                     /\ pc' = [pc EXCEPT ![p] = "poll"]
                     /\ loc' = [loc EXCEPT ![p] = [NoLoc EXCEPT !.op = op,
                                   !.key = k, !.lock = lock, !.txid = t,
                                   !.npub = 1]]
                     /\ ev' = Quiet
                  \/ /\ LocalCheck(p, n, k, lock, op, NoTxid, "fallback")
                     /\ UNCHANGED <<bus, sigOn, inbox>>
       /\ UNCHANGED <<synchronous, is_broker, listening, pending,
                      group_pending, stale, private, waiters, tenures, retained, svars, nvars>>

\* lines 300-306, one turn of the loop: a reply ends it; a timeout
\* republishes the same request while expired() holds, else ends it
Poll(p) ==
    LET n == NodeOf(p)
        k == loc[p].key
    IN /\ pc[p] = "poll"
       /\ loc[p].i < QueryRetries
       /\ IF inbox[p] # <<>>
          THEN /\ pc' = [pc EXCEPT ![p] = "recv"]
               /\ ev' = Quiet
               /\ UNCHANGED <<bus, loc, sigOn, inbox>>
          ELSE IF stale[k]
          THEN \/ /\ bus' = Publish(bus, PendqMsg(n, k, loc[p].txid, loc[p].lock))
                  /\ loc' = [loc EXCEPT ![p].i = @ + 1, ![p].npub = @ + 1]
                  /\ pc' = [pc EXCEPT ![p] =
                               IF loc[p].i + 1 = QueryRetries THEN "final" ELSE "poll"]
                  /\ ev' = Quiet
                  /\ UNCHANGED <<sigOn, inbox>>
               \/ /\ LocalCheck(p, n, k, loc[p].lock, loc[p].op, NoTxid, "fallback")
                  /\ sigOn' = [sigOn EXCEPT ![p] = FALSE]
                  /\ inbox' = [inbox EXCEPT ![p] = <<>>]
                  /\ UNCHANGED bus
          ELSE /\ pc' = [pc EXCEPT ![p] = "recv"]
               /\ ev' = Quiet
               /\ UNCHANGED <<bus, loc, sigOn, inbox>>
       /\ UNCHANGED <<synchronous, is_broker, listening, pending,
                      group_pending, txid, stale, private, waiters, tenures, retained, svars, nvars>>

\* lines 307-309: the loop ran out; one more wait while expired() holds
FinalWait(p) ==
    /\ pc[p] = "final"
    /\ pc' = [pc EXCEPT ![p] = "recv"]
    /\ ev' = Quiet
    /\ UNCHANGED <<synchronous, is_broker, listening, pending, group_pending,
                   txid, stale, private, bus, loc, inbox, sigOn, waiters, tenures, retained, svars, nvars>>

\* an answer that takes a timeout for "nobody computing" without asking
\* expired() again
RemoteAnswerAssumesStale(box, isStale) ==
    IF box # <<>>
    THEN IF box[1] # None THEN box[1][2]
         ELSE IF ~isStale THEN OOB_UPDATE ELSE None
    ELSE None

\* lines 310-319: the value query_pending returns, from the reply in the
\* waiter socket (if any) and expired()
RemoteAnswer(box, isStale) ==
    IF box # <<>>
    THEN IF box[1] # None THEN box[1][2]
         ELSE IF ~isStale THEN OOB_UPDATE ELSE None
    ELSE IF isStale THEN None ELSE OOB_UPDATE

\* lines 310-325
Recv(p) ==
    LET n == NodeOf(p)
        k == loc[p].key
        rv == RemoteAnswer(inbox[p], stale[k])
    IN /\ pc[p] = "recv"
       /\ sigOn' = [sigOn EXCEPT ![p] = FALSE]
       /\ inbox' = [inbox EXCEPT ![p] = <<>>]
       /\ pending' = IF loc[p].lock /\ rv = None
                     THEN [pending EXCEPT ![n][k] = loc[p].txid]
                     ELSE pending
       /\ loc' = [loc EXCEPT ![p].rv = rv]
       /\ pc' = [pc EXCEPT ![p] = "returned"]
       /\ ev' = Event("query_pending", p, k, loc[p].txid, rv,
                      IF inbox[p] # <<>> THEN "reply" ELSE "timeout", loc[p].lock)
       /\ UNCHANGED <<synchronous, is_broker, listening, group_pending, txid,
                      stale, private, bus, waiters, tenures, retained, svars, nvars>>

\* a direct caller of query_pending takes the answer
ApiReturn(p) ==
    /\ pc[p] = "returned"
    /\ loc[p].op = "query"
    /\ pc' = [pc EXCEPT ![p] = "idle"]
    /\ loc' = [loc EXCEPT ![p] = NoLoc]
    /\ ev' = Quiet
    /\ UNCHANGED <<synchronous, is_broker, listening, pending, group_pending,
                   txid, stale, private, bus, inbox, sigOn, waiters, tenures, retained, svars, nvars>>

\* ------------------------------------- CoherentDefer / put_coherently
\* an undefer that asks the broker before it looks at expired()
UndeferSkipQueries(p, k) ==
    /\ pc[p] = "idle"
    /\ ~stale[k]
    /\ bus' = Publish(bus, PendqMsg(NodeOf(p), k, txid[NodeOf(p)], TRUE))
    /\ txid' = [txid EXCEPT ![NodeOf(p)] = NextTxid(@)]
    /\ ev' = Event("put_coherently", p, k, NoTxid, <<"NONE">>, "skip", TRUE)
    /\ UNCHANGED <<synchronous, is_broker, listening, pending, group_pending,
                   stale, private, pc, loc, inbox, sigOn, waiters, tenures, retained, svars, nvars>>

\* coherent.py lines 54-57 through 171-183: expired() is false on entry,
\* undefer returns NONE, nothing is put, done() finds computed unset
UndeferSkip(p, k) ==
    /\ pc[p] = "idle"
    /\ ~stale[k]
    /\ ev' = Event("put_coherently", p, k, NoTxid, <<"NONE">>, "skip", TRUE)
    /\ UNCHANGED <<synchronous, is_broker, listening, pending, group_pending,
                   txid, stale, private, bus, pc, loc, inbox, sigOn, waiters, tenures, retained, svars, nvars>>

\* an undefer that runs the callable whatever the answer
UndeferResumeAlways(p) ==
    /\ pc[p] = "returned"
    /\ loc[p].op = "put_coherently"
    /\ loc' = [loc EXCEPT ![p].computed = TRUE, ![p].calls = @ + 1]
    /\ pc' = [pc EXCEPT ![p] = "put"]
    /\ ev' = Quiet
    /\ UNCHANGED <<synchronous, is_broker, listening, pending, group_pending,
                   txid, stale, private, bus, inbox, sigOn, waiters, tenures, retained, svars, nvars>>

\* coherent.py lines 60-74 with wait_time = 0: on None the callable runs
\* (it returns a value or raises); any other answer abandons with NONE.
\* calls counts the invocations of the callable within the call
UndeferResume(p) ==
    /\ pc[p] = "returned"
    /\ loc[p].op = "put_coherently"
    /\ IF loc[p].rv = None
       THEN /\ loc' = [loc EXCEPT ![p].computed = TRUE, ![p].calls = @ + 1]
            /\ \/ /\ pc' = [pc EXCEPT ![p] = "put"]
                  /\ ev' = Quiet
               \/ /\ pc' = [pc EXCEPT ![p] = "done"]
                  /\ ev' = Quiet
       ELSE /\ loc' = [loc EXCEPT ![p] = NoLoc]
            /\ pc' = [pc EXCEPT ![p] = "idle"]
            /\ ev' = Quiet
    /\ UNCHANGED <<synchronous, is_broker, listening, pending, group_pending,
                   txid, stale, private, bus, inbox, sigOn, waiters, tenures, retained, svars, nvars>>

\* coherent.py lines 64-68 with wait_time != 0: the answer is neither None
\* nor an out-of-band update that expired() confirms, so line 68 calls
\* manager.wait_done: CoherenceManager (coherence.py lines 96-371) defines
\* no wait_done and AttributeError leaves undefer; the finally block of
\* put_coherently finds computed unset and the exception reaches the caller
UndeferWait(p) ==
    /\ pc[p] = "returned"
    /\ loc[p].op = "put_coherently"
    /\ loc[p].rv # None
    /\ ~(loc[p].rv = OOB_UPDATE /\ ~stale[loc[p].key])
    /\ loc' = [loc EXCEPT ![p] = NoLoc]
    /\ pc' = [pc EXCEPT ![p] = "idle"]
    /\ ev' = Event("put_coherently", p, loc[p].key, loc[p].txid,
                   <<"AttributeError">>, "raise", TRUE)
    /\ UNCHANGED <<synchronous, is_broker, listening, pending, group_pending,
                   txid, stale, private, bus, inbox, sigOn, waiters, tenures,
                   retained, svars, nvars>>

\* coherent.py line 180: the computed value lands in the wrapped client
ClientPut(p) ==
    /\ pc[p] = "put"
    /\ private' = [private EXCEPT ![NodeOf(p)] = @ \cup {loc[p].key}]
    /\ pc' = [pc EXCEPT ![p] = "done"]
    /\ ev' = Quiet
    /\ UNCHANGED <<synchronous, is_broker, listening, pending, group_pending,
                   txid, stale, bus, loc, inbox, sigOn, waiters, tenures, retained, svars, nvars>>

DoneMsg(n, k, t) == Msg("done", n, "broker", t, <<k>>, Contact(n), FALSE, None)

\* coherence.py lines 366-371: what mark_done puts on the bus for txid t
MarkDonePublishes(b, n, k, t) == Publish(b, DoneMsg(n, k, t))

\* coherence.py lines 366-371:
\* pending.pop(key) raises KeyError on a missing key; the publish may be
\* refused, which _swallow_connrefused(_noop) turns into a plain return
MarkDoneBody(p, k) ==
    LET n == NodeOf(p)
        t == pending[n][k]
    IN /\ IF t = NoTxid
          THEN /\ ev' = Event("mark_done", p, k, t, <<"KeyError">>, "raise", TRUE)
               /\ UNCHANGED <<pending, bus>>
          ELSE /\ pending' = [pending EXCEPT ![n][k] = NoTxid]
               /\ \/ /\ bus' = MarkDonePublishes(bus, n, k, t)
                     /\ ev' = Event("mark_done", p, k, t, None, "publish", TRUE)
                  \/ /\ bus' = bus
                     /\ ev' = Event("mark_done", p, k, t, None, "refused", TRUE)
       /\ UNCHANGED <<synchronous, is_broker, listening, group_pending, txid,
                      stale, private, inbox, sigOn, waiters, tenures, retained, svars, nvars>>

\* coherent.py lines 76-78 and 181-183: done() of a call that computed
MarkDone(p) ==
    /\ pc[p] = "done"
    /\ pc' = [pc EXCEPT ![p] = "idle"]
    /\ loc' = [loc EXCEPT ![p] = NoLoc]
    /\ MarkDoneBody(p, loc[p].key)

\* coherence.py lines 366-371: mark_done(key) called on the manager directly
ApiMarkDone(p, k) ==
    /\ pc[p] = "idle"
    /\ MarkDoneBody(p, k)
    /\ UNCHANGED <<pc, loc>>

\* ------------------------------------------------------------ bus handlers
\* a handler that records every request that finds no entry, lock or not
OnPendingQueryAnyRequest(gp, k, t, contact, lock) ==
    IF gp[k] = None THEN [gp EXCEPT ![k] = <<t, contact>>] ELSE gp

\* a handler that records the request over an entry already held
OnPendingQueryInverted(gp, k, t, contact, lock) ==
    IF lock /\ gp[k] # None THEN [gp EXCEPT ![k] = <<t, contact>>] ELSE gp

\* lines 341-343: the table after the request
OnPendingQuery(gp, k, t, contact, lock) ==
    IF lock /\ gp[k] = None THEN [gp EXCEPT ![k] = <<t, contact>>] ELSE gp

\* lines 338-344: the broker takes a pendq and replies with the entry held
DeliverPendq(i) ==
    \E n \in Nodes :
      LET m == bus[i]
          k == m.keys[1]
          rv == group_pending[n][k]
      IN /\ m.pfx = "pendq"
         /\ Deliverable(bus, i)
         /\ is_broker[n] /\ listening[n]
         /\ group_pending' = [group_pending EXCEPT
                ![n] = OnPendingQuery(@, k, m.txid, m.contact, m.lock)]
         /\ bus' = Publish(RemoveAt(bus, i),
                [Msg("ack", n, m.src, m.txid, m.keys, m.contact, m.lock, rv)
                   EXCEPT !.rec = group_pending'[n][k]])
         /\ ev' = Event("on_pending_query", n, k, m.txid, rv, m.src, m.lock)
         /\ UNCHANGED <<synchronous, is_broker, listening, pending, txid,
                        stale, private, pc, loc, inbox, sigOn, waiters, tenures, retained, svars, nvars>>

\* lines 288-297: the signaler of a call whose request is the acknowledged one
SignalerMatches(p, m) ==
    /\ sigOn[p]
    /\ NodeOf(p) = m.dst
    /\ <<loc[p].key, loc[p].txid, Contact(NodeOf(p)), loc[p].lock>>
         = <<m.keys[1], m.txid, m.contact, m.lock>>

\* lines 288-297: the reply reaches the waiting call and the signaler
\* unsubscribes; an acknowledgement nobody waits for is discarded
DeliverAck(i) ==
    LET m == bus[i]
    IN /\ m.pfx = "ack"
       /\ Deliverable(bus, i)
       /\ inbox' = [p \in Procs |->
                       IF SignalerMatches(p, m) THEN <<m.reply, m.rec>>
                       ELSE inbox[p]]
       /\ sigOn' = [p \in Procs |-> sigOn[p] /\ ~SignalerMatches(p, m)]
       /\ bus' = RemoveAt(bus, i)
       /\ ev' = Quiet
       /\ UNCHANGED <<synchronous, is_broker, listening, pending,
                      group_pending, txid, stale, private, pc, loc, waiters, tenures, retained, svars, nvars>>

\* a handler that compares the contact only
OnDoneAnyTxid(gp, t, keys, contact) ==
    [k \in Keys |->
        IF (\E j \in 1..Len(keys) : keys[j] = k) /\ gp[k] # None
           /\ gp[k][2] = contact
        THEN None ELSE gp[k]]

\* lines 357-364: the table after a done announcement
OnDone(gp, t, keys, contact) ==
    [k \in Keys |->
        IF (\E j \in 1..Len(keys) : keys[j] = k) /\ gp[k] = <<t, contact>>
        THEN None ELSE gp[k]]

\* lines 353-364
DeliverDone(i) ==
    \E n \in Nodes :
      LET m == bus[i]
      IN /\ m.pfx = "done"
         /\ Deliverable(bus, i)
         /\ is_broker[n] /\ listening[n]
         /\ group_pending' = [group_pending EXCEPT
                ![n] = OnDone(@, m.txid, m.keys, m.contact)]
         /\ bus' = RemoveAt(bus, i)
         /\ ev' = Event("on_done", n, m.keys[1], m.txid, m.contact,
                        IF group_pending[n][m.keys[1]] = None THEN "absent"
                        ELSE IF group_pending[n][m.keys[1]] = <<m.txid, m.contact>>
                        THEN "match" ELSE "stale", FALSE)
         /\ UNCHANGED <<synchronous, is_broker, listening, pending, txid,
                        stale, private, pc, loc, inbox, sigOn, waiters, tenures, retained, svars, nvars>>

\* ---------------------------------------------------------------- deletion
DelMsg(n, k, t) == Msg("del", n, n, t, <<k>>, Contact(n), FALSE, None)

\* lines 196-201 in asynchronous mode: NoopWaiter, then the broadcast
FireDeletionPublishes(b, n, k, t) == PublishAll(b, DelMsg(n, k, t), Nodes)

\* coherent.py lines 185-189 and coherence.py lines 196-201: the key leaves the
\* wrapped client, then fire_deletion draws a txid, builds its waiter and
\* broadcasts del; a refused publish is swallowed.
\* In synchronous mode the waiter is a SyncWaiter (lines 37-42), whose
\* __init__ calls manager.listen_decode and reads manager.ackprefix:
\* CoherenceManager defines neither (its bus is self.ipsub, its prefix
\* self.delackprefix), so AttributeError leaves fire_deletion before the
\* waiter is subscribed and before del is published.
Delete(p, k) ==
    LET n == NodeOf(p)
        t == txid[n]
    IN /\ pc[p] = "idle"
       /\ private' = [private EXCEPT ![n] = @ \ {k}]
       /\ txid' = [txid EXCEPT ![n] = NextTxid(t)]
       /\ IF synchronous[n]
          THEN /\ ev' = Event("delete", p, k, t, <<"AttributeError">>, "raise",
                              FALSE)
               /\ UNCHANGED <<bus, waiters>>
          ELSE /\ \/ /\ bus' = FireDeletionPublishes(bus, n, k, t)
                     /\ ev' = Event("delete", p, k, t, None, "publish", FALSE)
                  \/ /\ bus' = bus
                     /\ ev' = Event("delete", p, k, t, None, "refused", FALSE)
               /\ UNCHANGED waiters
       /\ UNCHANGED <<synchronous, is_broker, listening, pending,
                      group_pending, stale, pc, loc, inbox, sigOn,
                      tenures, retained, svars, nvars>>

\* coherent.py lines 191-195: the wrapped client is cleared, then the
\* argument of fire_deletion is evaluated: the module chorde.mq.coherence
\* defines no CLEAR (coherence.py lines 19-28), so AttributeError leaves
\* clear() before fire_deletion is entered; no txid is drawn, no del published
Clear(p) ==
    LET n == NodeOf(p)
    IN /\ pc[p] = "idle"
       /\ private' = [private EXCEPT ![n] = {}]
       /\ ev' = Event("clear", p, "CLEAR", NoTxid, <<"AttributeError">>, "raise",
                      FALSE)
       /\ UNCHANGED <<synchronous, is_broker, listening, pending,
                      group_pending, txid, stale, bus, pc, loc, inbox, sigOn,
                      waiters, tenures, retained, svars, nvars>>

\* coherent.py lines 124-140, CoherentWrapperClient.put of a plain value.
\* CoherenceManager.__init__ (coherence.py lines 137-186) sets no
\* quick_refresh and the class defines no fire_done.  quick is what the
\* caller made of it: "absent" (the manager as constructed: line 126 raises
\* AttributeError before anything is put), "off" (the attribute was set
\* false on the instance: line 140 puts) or "on" (set true: line 137 puts,
\* then line 138 raises AttributeError looking up fire_done; no done is
\* published).  The event's lock field carries quick = "on"
WrapperPut(p, k, quick) ==
    LET n == NodeOf(p)
    IN /\ pc[p] = "idle"
       /\ private' = IF quick = "absent" THEN private
                     ELSE [private EXCEPT ![n] = @ \cup {k}]
       /\ ev' = IF quick = "off"
                THEN Event("put", p, k, NoTxid, None, "plain", FALSE)
                ELSE Event("put", p, k, NoTxid, <<"AttributeError">>,
                           IF quick = "on" THEN "fire_done" ELSE "quick_refresh",
                           quick = "on")
       /\ UNCHANGED <<synchronous, is_broker, listening, pending, group_pending,
                      txid, stale, bus, pc, loc, inbox, sigOn, waiters, tenures,
                      retained, svars, nvars>>

\* a handler that leaves the private cache alone
OnDeletionKeeps(cache, k) == cache

\* lines 205-209: the private cache after a del for key k
OnDeletion(cache, k) == cache \ {k}

\* lines 203-214: drop the key from the private cache (a miss is ignored)
\* and, in synchronous mode, acknowledge with the del's txid
DeliverDel(i) ==
    LET m == bus[i]
        n == m.dst
    IN /\ m.pfx = "del"
       /\ Deliverable(bus, i)
       /\ private' = [private EXCEPT ![n] = OnDeletion(@, m.keys[1])]
       /\ bus' = IF synchronous[n]
                 THEN Publish(RemoveAt(bus, i),
                              Msg("delack", n, m.src, m.txid, m.keys, Contact(n),
                                  FALSE, None))
                 ELSE RemoveAt(bus, i)
       /\ ev' = Event("on_deletion", n, m.keys[1], m.txid,
                      IF m.keys[1] \in private[n] THEN <<"hit">> ELSE <<"miss">>,
                      m.src, FALSE)
       /\ UNCHANGED <<synchronous, is_broker, listening, pending,
                      group_pending, txid, stale, pc, loc, inbox, sigOn,
                      waiters, tenures, retained, svars, nvars>>

\* lines 45-46: a subscribed waiter's callback returns False, which
\* unsubscribes it; a delack no waiter is subscribed for is discarded
DeliverDelack(i) ==
    LET m == bus[i]
        n == m.dst
    IN /\ m.pfx = "delack"
       /\ Deliverable(bus, i)
       /\ waiters' = [waiters EXCEPT ![n] = {}]
       /\ bus' = RemoveAt(bus, i)
       /\ ev' = Quiet
       /\ UNCHANGED <<synchronous, is_broker, listening, pending,
                      group_pending, txid, stale, private, pc, loc, inbox,
                      sigOn, tenures, retained, svars, nvars>>

\* inproc.py line 145: a value is stored in the private cache directly
LocalPut(n, k) ==
    /\ k \notin private[n]
    /\ private' = [private EXCEPT ![n] = @ \cup {k}]
    /\ ev' = Quiet
    /\ UNCHANGED <<synchronous, is_broker, listening, pending, group_pending,
                   txid, stale, bus, pc, loc, inbox, sigOn, waiters, tenures, retained, svars, nvars>>

\* ---------------------------------------------------------- broker changes
\* lines 227-235: the subscriptions go; group_pending is left as it is
LeaveBroker(n) ==
    /\ is_broker[n]
    /\ tenures <= MaxFailovers
    /\ is_broker' = [is_broker EXCEPT ![n] = FALSE]
    /\ listening' = [listening EXCEPT ![n] = FALSE]
    /\ ev' = Quiet
    /\ retained' = [retained EXCEPT ![n] = group_pending[n]]
    /\ UNCHANGED <<synchronous, pending, group_pending, txid, stale, private,
                   bus, pc, loc, inbox, sigOn, waiters, tenures, svars, nvars>>

\* lines 216-225: subscribe to pend, done and pendq, broadcast listpendq
EnterBroker(n) ==
    /\ \A m \in Nodes : ~is_broker[m]
    /\ tenures' = tenures + 1
    /\ is_broker' = [is_broker EXCEPT ![n] = TRUE]
    /\ listening' = [listening EXCEPT ![n] = TRUE]
    /\ bus' = PublishAll(bus, Msg("listpendq", n, n, NoTxid, <<>>, Contact(n),
                                  FALSE, None), Nodes \ {n})
    /\ ev' = Quiet
    /\ UNCHANGED <<synchronous, pending, group_pending, txid, stale, private,
                   pc, loc, inbox, sigOn, waiters, retained, svars, nvars>>

\* lines 327-336: the pend announcement _publish_pending would send for
\* keys: it draws a fresh txid, not the txid held in pending
PublishPendingMsg(n, keys) ==
    Msg("pend", n, "broker", txid[n], keys, Contact(n), FALSE, None)

\* lines 346-351: the table after a pend announcement
OnPending(gp, t, keys, contact) ==
    [k \in Keys |->
        IF \E j \in 1..Len(keys) : keys[j] = k THEN <<t, contact>> ELSE gp[k]]

\* lines 181-186: __init__ subscribes to del and to the broker events only;
\* nothing listens on listpendqprefix, so the request is discarded and
\* _publish_pending is never called
DeliverListpendq(i) ==
    LET m == bus[i]
    IN /\ m.pfx = "listpendq"
       /\ Deliverable(bus, i)
       /\ bus' = RemoveAt(bus, i)
       /\ ev' = Event("listpendq", m.dst, "k1", NoTxid, None, m.src, FALSE)
       /\ UNCHANGED <<synchronous, is_broker, listening, pending,
                      group_pending, txid, stale, private, pc, loc, inbox,
                      sigOn, waiters, tenures, retained, svars, nvars>>

\* ------------------------------------------------------------ environment
\* the bus is best-effort: a message in flight may be lost
Lose(i) ==
    /\ bus' = RemoveAt(bus, i)
    /\ ev' = Quiet
    /\ UNCHANGED <<synchronous, is_broker, listening, pending, group_pending,
                   txid, stale, private, pc, loc, inbox, sigOn, waiters, tenures, retained, svars, nvars>>

\* the shared cache is refreshed out of band / its entry expires
SetStale(k, b) ==
    /\ stale[k] # b
    /\ stale' = [stale EXCEPT ![k] = b]
    /\ ev' = Quiet
    /\ UNCHANGED <<synchronous, is_broker, listening, pending, group_pending,
                   txid, private, bus, pc, loc, inbox, sigOn, waiters, tenures, retained, svars, nvars>>

\* ------------------------------------------- in-process store: operations
\* a thread with no operation under way
Idle(t) == call[t].step = "idle"

\* the record of an operation of thread t that has returned rv
Returned(op, k, v, a, d, n, cur, rv) ==
    [op |-> op, step |-> "idle", key |-> k, val |-> v, arg |-> a, dflt |-> d,
     now |-> n, cur |-> cur, rv |-> rv]

\* history: the entries installed and not removed, operation by operation:
\* put installs, add installs when it answers True, expire re-dates what is
\* installed, delete, clear and purge remove
HistAfter(h, r) ==
    LET k == r.key
    IN CASE r.op = "put" -> [h EXCEPT ![k] = <<r.val, r.now + r.arg>>]
         [] r.op = "add" -> IF r.rv = True
                            THEN [h EXCEPT ![k] = <<r.val, r.now + r.arg>>]
                            ELSE h
         [] r.op = "expire" -> IF h[k] # None
                               THEN [h EXCEPT ![k] = <<h[k][1], r.now>>]
                               ELSE h
         [] r.op = "delete" -> [h EXCEPT ![k] = None]
         [] r.op = "clear" -> NoStore
         [] r.op = "purge" -> [x \in Keys |->
                                 IF h[x] # None /\ h[x][2] < r.now - r.arg
                                 THEN None ELSE h[x]]
         [] OTHER -> h

Finish(t, r) ==
    /\ call' = [call EXCEPT ![t] = r]
    /\ out' = r
    /\ hist' = HistAfter(hist, r)

\* inproc.py lines 144-145
StorePut(t, k, v, ttl) ==
    /\ Idle(t)
    /\ store' = [store EXCEPT ![k] = <<v, now + ttl>>]
    /\ Finish(t, Returned("put", k, v, ttl, NoDefault, now, None, None))
    /\ UNCHANGED <<now, cvars, nvars>>

\* a check that takes an entry expiring right now for stale
AddOverridesAtZero(cur, n0) == cur[2] <= n0

\* inproc.py line 155: the entry found is stale
AddOverrides(cur, n0) == cur[2] < n0

\* inproc.py lines 148-152: the clock is read, setdefault stores the new
\* entry if the key is absent (add returns True) and hands back the entry
\* held otherwise
AddSetdefault(t, k, v, ttl) ==
    /\ Idle(t)
    /\ IF store[k] = None
       THEN /\ store' = [store EXCEPT ![k] = <<v, now + ttl>>]
            /\ Finish(t, Returned("add", k, v, ttl, NoDefault, now, None, True))
       ELSE /\ call' = [call EXCEPT ![t] =
                          [Returned("add", k, v, ttl, NoDefault, now, store[k],
                                    None) EXCEPT !.step = "check"]]
            /\ out' = NoCall
            /\ UNCHANGED <<store, hist>>
    /\ UNCHANGED <<now, cvars, nvars>>

\* inproc.py lines 153-159: the entry setdefault handed back is compared
\* with the clock read at line 148; a stale one is overwritten
AddCheck(t) ==
    LET c == call[t]
        new == <<c.val, c.now + c.arg>>
    IN /\ c.step = "check"
       /\ IF AddOverrides(c.cur, c.now)
          THEN /\ store' = [store EXCEPT ![c.key] = new]
               /\ Finish(t, [c EXCEPT !.step = "idle", !.rv = True])
          ELSE /\ Finish(t, [c EXCEPT !.step = "idle", !.rv = False])
               /\ UNCHANGED store
       /\ UNCHANGED <<now, cvars, nvars>>

\* inproc.py lines 161-165: a missing key is not an error
StoreDelete(t, k) ==
    /\ Idle(t)
    /\ store' = [store EXCEPT ![k] = None]
    /\ Finish(t, Returned("delete", k, "v1", 0, NoDefault, now, store[k], None))
    /\ UNCHANGED <<now, cvars, nvars>>

\* inproc.py lines 168-171: the clock is read and the entry popped; a
\* missing key ends the call (CacheMissError is swallowed, lines 173-174)
ExpirePop(t, k) ==
    /\ Idle(t)
    /\ IF store[k] = None
       THEN /\ Finish(t, Returned("expire", k, "v1", 0, NoDefault, now, None,
                                  None))
            /\ UNCHANGED store
       ELSE /\ store' = [store EXCEPT ![k] = None]
            /\ call' = [call EXCEPT ![t] =
                          [Returned("expire", k, store[k][1], 0, NoDefault, now,
                                    store[k], None) EXCEPT !.step = "reinsert"]]
            /\ out' = NoCall
            /\ UNCHANGED hist
    /\ UNCHANGED <<now, cvars, nvars>>

\* inproc.py line 172: setdefault puts the value back, expiring at the
\* clock read at line 168, unless the key is held again
ExpireReinsert(t) ==
    LET c == call[t]
    IN /\ c.step = "reinsert"
       /\ store' = IF store[c.key] = None
                   THEN [store EXCEPT ![c.key] = <<c.val, c.now>>]
                   ELSE store
       /\ Finish(t, [c EXCEPT !.step = "idle"])
       /\ UNCHANGED <<now, cvars, nvars>>

\* a lookup that reports the time of expiry instead of the time left
GetTtlAbsolute(e, d, n) ==
    IF e # None THEN <<e[1], e[2]>>
    ELSE IF d = NoDefault THEN Miss
    ELSE <<d, -1>>

\* inproc.py lines 177-184: what getTtl(key, default) answers at clock n
\* when the store holds e for the key
GetTtlResult(e, d, n) ==
    IF e # None THEN <<e[1], e[2] - n>>
    ELSE IF d = NoDefault THEN Miss
    ELSE <<d, -1>>

\* base.py lines 80-85: get on top of getTtl
GetResult(e, d, n) ==
    LET g == GetTtlResult(e, d, n)
    IN IF Len(g) = 1 THEN Miss
       ELSE IF g[2] < 0 /\ d = NoDefault THEN Miss
       ELSE <<g[1]>>

\* inproc.py lines 225-236
ContainsResult(e, margin, n) ==
    IF e # None /\ e[2] - n > margin THEN True ELSE False

StoreGetTtl(t, k, d) ==
    /\ Idle(t)
    /\ Finish(t, Returned("getTtl", k, "v1", 0, d, now, store[k],
                          GetTtlResult(store[k], d, now)))
    /\ UNCHANGED <<store, now, cvars, nvars>>

StoreGet(t, k, d) ==
    /\ Idle(t)
    /\ Finish(t, Returned("get", k, "v1", 0, d, now, store[k],
                          GetResult(store[k], d, now)))
    /\ UNCHANGED <<store, now, cvars, nvars>>

\* contains(key) with the default margin
StoreContains(t, k) ==
    /\ Idle(t)
    /\ Finish(t, Returned("contains", k, "v1", 0, NoDefault, now, store[k],
                          ContainsResult(store[k], 0, now)))
    /\ UNCHANGED <<store, now, cvars, nvars>>

\* inproc.py lines 186-187
StoreClear(t) ==
    /\ Idle(t)
    /\ store' = NoStore
    /\ Finish(t, Returned("clear", "k1", "v1", 0, NoDefault, now, None, None))
    /\ UNCHANGED <<now, cvars, nvars>>

\* a scan that also takes the entries expiring exactly at the limit
PurgeDeletionsInclusive(st, curtime) ==
    {k \in Keys : st[k] # None /\ st[k][2] <= curtime}

\* inproc.py lines 193-198: the keys the scan collects
PurgeDeletions(st, curtime) ==
    {k \in Keys : st[k] # None /\ st[k][2] < curtime}

\* inproc.py lines 189-222, the store not changing under the scan
StorePurge(t, timeout) ==
    LET gone == PurgeDeletions(store, now - timeout)
    IN /\ Idle(t)
       /\ store' = [k \in Keys |-> IF k \in gone THEN None ELSE store[k]]
       /\ Finish(t, Returned("purge", "k1", "v1", timeout, NoDefault, now, None,
                             IF gone = {} THEN <<"none">> ELSE <<"some">>))
       /\ UNCHANGED <<now, cvars, nvars>>

\* ---------------------------------- purge while another thread writes
\* cache.get(x) for whatever x holds: only a key can be found
Fetch(st, x) == IF x \in Keys THEN st[x] ELSE None

\* inproc.py lines 206-211: the loop over the snapshot ks of the keys.
\* Line 207 is v = cache_get(v): it looks up the loop variable v left by the
\* interrupted scan (a value) and then its own result, never the key k
RECURSIVE RecoverScan(_, _, _, _, _)
RecoverScan(st, ks, v, curtime, dels) ==
    IF ks = <<>> THEN dels
    ELSE LET e == Fetch(st, v)
         IN IF e # None
            THEN RecoverScan(st, Tail(ks), e[1], curtime,
                             IF e[2] < curtime THEN dels \cup {Head(ks)}
                             ELSE dels)
            ELSE RecoverScan(st, Tail(ks), "None", curtime, dels)

Present(st) == {k \in Keys : st[k] # None}

\* cache.keys(): the keys held, in the store's order
KeyOrders(st) ==
    {s \in UNION {[1..m -> Keys] : m \in 0..Cardinality(Keys)} :
        /\ Len(s) = Cardinality(Present(st))
        /\ {s[j] : j \in 1..Len(s)} = Present(st)}

\* the scan of a purge under way: the size the iterator was created at, the
\* keys it has yielded, the deletions collected, the store the fallback took
\* its snapshot of and the path the deletions came from
Scan(size, seen, dels, snap, via) ==
    [size |-> size, seen |-> seen, dels |-> dels, snap |-> snap, via |-> via]

\* inproc.py lines 190-196: the clock is read and the iterator created
PurgeBegin(t, timeout) ==
    /\ Idle(t)
    /\ call' = [call EXCEPT ![t] =
                  [Returned("purge", "k1", "unbound", timeout, NoDefault, now,
                            Scan(Cardinality(Present(store)), {}, {}, store,
                                 "scan"), None)
                     EXCEPT !.step = "scan"]]
    /\ out' = NoCall
    /\ UNCHANGED <<store, now, hist, cvars, nvars>>

\* inproc.py lines 196-199, one turn of the loop: the iterator raises
\* RuntimeError when the store changed size since its creation, stops when
\* it has yielded every key, and binds k, v, timestamp otherwise
PurgeIter(t) ==
    LET c == call[t]
        todo == Present(store) \ c.cur.seen
    IN /\ c.step = "scan"
       /\ IF Cardinality(Present(store)) # c.cur.size
          THEN call' = [call EXCEPT ![t].step = "recover"]
          ELSE IF todo = {}
          THEN call' = [call EXCEPT ![t].step = "pop"]
          ELSE \E k \in todo :
                 call' = [call EXCEPT
                    ![t].val = store[k][1],
                    ![t].cur.seen = @ \cup {k},
                    ![t].cur.dels = IF store[k][2] < c.now - c.arg
                                    THEN @ \cup {k} ELSE @]
       /\ out' = NoCall
       /\ UNCHANGED <<store, now, hist, cvars, nvars>>

\* inproc.py lines 199-211: the deletions are emptied and collected again
\* over cache.keys().  When the scan was interrupted before it bound v,
\* line 207 reads an unbound local: UnboundLocalError leaves purge
PurgeRecover(t) ==
    LET c == call[t]
    IN /\ c.step = "recover"
       /\ IF c.val = "unbound" /\ Present(store) # {}
          THEN /\ call' = [call EXCEPT ![t] =
                             [c EXCEPT !.step = "idle",
                                       !.cur.dels = {}, !.cur.snap = store,
                                       !.cur.via = "recover",
                                       !.rv = <<"UnboundLocalError">>]]
               /\ out' = call'[t]
          ELSE /\ \E ks \in KeyOrders(store) :
                    call' = [call EXCEPT
                       ![t].step = "pop",
                       ![t].cur.dels = RecoverScan(store, ks, c.val,
                                                   c.now - c.arg, {}),
                       ![t].cur.snap = store,
                       ![t].cur.via = "recover"]
               /\ out' = NoCall
       /\ UNCHANGED <<store, now, hist, cvars, nvars>>

\* inproc.py lines 212-222: the collected keys are popped
PurgePop(t) ==
    LET c == call[t]
        gone == c.cur.dels
    IN /\ c.step = "pop"
       /\ store' = [k \in Keys |-> IF k \in gone THEN None ELSE store[k]]
       /\ hist' = [k \in Keys |-> IF k \in gone THEN None ELSE hist[k]]
       /\ call' = [call EXCEPT ![t] =
                     [c EXCEPT !.step = "idle",
                               !.rv = IF gone = {} THEN <<"none">>
                                      ELSE <<"some">>]]
       /\ out' = call'[t]
       /\ UNCHANGED <<now, cvars, nvars>>

\* ------------------------------------------------- namespace wrappers
\* a decorator that leaves the namespace out of the key
KeyDecoratorNoNamespace(w, k) == <<"nsA", wrap[w].revision, k>>

\* base.py lines 302-303: (namespace, revision, key)
KeyDecorator(w, k) == <<Namespace(w), wrap[w].revision, k>>

\* base.py line 296: client.get((namespace, 'REVMARK'), 0) when the client
\* holds e under that key: the default for a missing key, the stored value
\* otherwise (base.py lines 80-85 return a stored value whatever its ttl
\* when a default is given)
RevisionRead(e) == IF e = None THEN 0 ELSE e[1]

\* what getTtl and contains answer through wrapper w for key k
\* (base.py lines 267-274 and 282-286)
View(w, k) ==
    <<GetTtlResult(nstore[KeyDecorator(w, k)], NoDefault, now),
      ContainsResult(nstore[KeyDecorator(w, k)], 0, now)>>

\* base.py lines 293-296: the constructor reads the revision
NsBuild(w) ==
    /\ ~wrap[w].built
    /\ wrap' = [wrap EXCEPT ![w] =
                  [built |-> TRUE,
                   revision |-> RevisionRead(nstore[RevKey(Namespace(w))])]]
    /\ nev' = NsEvent("init", w, "k1", None)
    /\ UNCHANGED <<nstore, stored, cvars, svars>>

\* base.py lines 243-248 over inproc.py line 145
NsPut(w, k, v, ttl) ==
    /\ wrap[w].built
    /\ nstore' = [nstore EXCEPT ![KeyDecorator(w, k)] = <<v, now + ttl>>]
    /\ stored' = [stored EXCEPT ![Namespace(w)] = @ \cup {k}]
    /\ nev' = NsEvent("put", w, k, None)
    /\ UNCHANGED <<wrap, cvars, svars>>

\* base.py lines 250-255 over inproc.py lines 147-159
NsAdd(w, k, v, ttl) ==
    LET dk == KeyDecorator(w, k)
        won == nstore[dk] = None \/ AddOverrides(nstore[dk], now)
    IN /\ wrap[w].built
       /\ nstore' = IF won THEN [nstore EXCEPT ![dk] = <<v, now + ttl>>]
                    ELSE nstore
       /\ stored' = IF won THEN [stored EXCEPT ![Namespace(w)] = @ \cup {k}]
                    ELSE stored
       /\ nev' = NsEvent("add", w, k, IF won THEN True ELSE False)
       /\ UNCHANGED <<wrap, cvars, svars>>

\* base.py lines 257-260 over inproc.py lines 161-165
NsDelete(w, k) ==
    /\ wrap[w].built
    /\ nstore' = [nstore EXCEPT ![KeyDecorator(w, k)] = None]
    /\ nev' = NsEvent("delete", w, k, None)
    /\ UNCHANGED <<wrap, stored, cvars, svars>>

\* base.py lines 262-265 over inproc.py lines 167-174
NsExpire(w, k) ==
    LET dk == KeyDecorator(w, k)
    IN /\ wrap[w].built
       /\ nstore' = IF nstore[dk] = None THEN nstore
                    ELSE [nstore EXCEPT ![dk] = <<nstore[dk][1], now>>]
       /\ nev' = NsEvent("expire", w, k, None)
       /\ UNCHANGED <<wrap, stored, cvars, svars>>

\* base.py lines 80-85 through lines 267-274: get(key) without a default
NsGet(w, k) ==
    /\ wrap[w].built
    /\ nev' = NsEvent("get", w, k,
                      GetResult(nstore[KeyDecorator(w, k)], NoDefault, now))
    /\ UNCHANGED <<nstore, wrap, stored, cvars, svars>>

\* inproc.py lines 186-187: store.clear()
ClientClear(st) == [dk \in DOMAIN st |-> None]

\* base.py lines 305-309: the revision is advanced and written under REVMARK
\* with a ttl of one hour; then client.clear() is called, which for the
\* in-process client empties the whole store (inproc.py lines 186-187),
\* the REVMARK entry just written included
NsClear(w) ==
    LET r == wrap[w].revision + 1
        marked == [nstore EXCEPT ![RevKey(Namespace(w))] = <<r, now + RevmarkTtl>>]
    IN /\ wrap[w].built
       /\ r <= MaxRev
       /\ wrap' = [wrap EXCEPT ![w].revision = r]
       /\ nstore' = ClientClear(marked)
       /\ stored' = [ns \in Namespaces |-> {}]
       /\ nev' = NsEvent("clear", w, "k1", None)
       /\ UNCHANGED <<cvars, svars>>

\* time passes
Tick ==
    /\ now < MaxNow
    /\ now' = now + 1
    /\ out' = NoCall
    /\ UNCHANGED <<store, call, hist, cvars, nvars>>

\* ------------------------------------------------------------------- Next
Budget(p) == txid[NodeOf(p)] < MaxTxid

Calls ==
    \/ \E p \in Procs, k \in CallKeys :
          Budget(p) /\ StartQuery(p, k, TRUE, "put_coherently")
    \/ \E p \in Procs, k \in CallKeys : UndeferSkip(p, k)

Steps ==
    \/ \E p \in Procs : LocalLock(p)
    \/ \E p \in Procs : Poll(p)
    \/ \E p \in Procs : FinalWait(p)
    \/ \E p \in Procs : Recv(p)
    \/ \E p \in Procs : UndeferResume(p)
    \/ \E p \in Procs : ClientPut(p)
    \/ \E p \in Procs : MarkDone(p)

Deliveries ==
    \/ \E i \in 1..Len(bus) : DeliverPendq(i)
    \/ \E i \in 1..Len(bus) : DeliverAck(i)
    \/ \E i \in 1..Len(bus) : DeliverDone(i)
    \/ \E i \in 1..Len(bus) : Lose(i)

Environment ==
    \E k \in CallKeys, b \in BOOLEAN : SetStale(k, b)

Failover ==
    \/ \E n \in Nodes : LeaveBroker(n)
    \/ \E n \in Nodes : EnterBroker(n)
    \/ \E i \in 1..Len(bus) : DeliverListpendq(i)

\* the pending protocol under one broker for the whole run
Next == Calls \/ Steps \/ Deliveries \/ Environment

Spec == Init /\ [][Next]_vars

\* a thread inside query_pending keeps running: each poll returns after its
\* timeout at the latest (coherence.py:300-309), and the local path takes no
\* blocking call (coherence.py:237-253)
SpecFair ==
    Spec /\ \A p \in Procs :
                WF_vars(LocalLock(p) \/ Poll(p) \/ FinalWait(p) \/ Recv(p))

\* the pending protocol with callers of either kind: wait_time = 0
\* (UndeferResume) and wait_time != 0 (UndeferWait)
NextWait == Next \/ \E p \in Procs : UndeferWait(p)

SpecWait == Init /\ [][NextWait]_vars

\* the pending protocol while the broker role moves
\* (the shared cache stays stale; each node draws at most MaxTxidFailover txids)
NextFailover ==
    \/ \E p \in Procs, k \in CallKeys :
          /\ txid[NodeOf(p)] < MaxTxidFailover
          /\ StartQuery(p, k, TRUE, "put_coherently")
    \/ Steps \/ Deliveries \/ Failover

SpecFailover == Init /\ [][NextFailover]_vars

\* ------------------------------------------------ deletions on their own
InitDel ==
    /\ synchronous = [n \in Nodes |-> n = "B"]
    /\ is_broker = [n \in Nodes |-> n = "A"]
    /\ listening = [n \in Nodes |-> n = "A"]
    /\ pending = [n \in Nodes |-> [k \in Keys |-> NoTxid]]
    /\ group_pending = [n \in Nodes |-> [k \in Keys |-> None]]
    /\ txid = [n \in Nodes |-> 0]
    /\ stale = [k \in Keys |-> TRUE]
    /\ private \in [Nodes -> SUBSET Keys]
    /\ bus = <<>>
    /\ pc = [p \in Procs |-> "idle"]
    /\ loc = [p \in Procs |-> NoLoc]
    /\ inbox = [p \in Procs |-> <<>>]
    /\ sigOn = [p \in Procs |-> FALSE]
    /\ waiters = [n \in Nodes |-> {}]
    /\ tenures = 1
    /\ ev = Quiet
    /\ retained = [n \in Nodes |-> [k \in Keys |-> None]]
    /\ StoreIdle
    /\ NsIdle

NextDel ==
    \/ \E p \in Procs, k \in Keys : Budget(p) /\ Delete(p, k)
    \/ \E p \in Procs : Clear(p)
    \/ \E p \in Procs, k \in Keys : ApiMarkDone(p, k)
    \/ \E p \in Procs, k \in Keys, quick \in {"absent", "off", "on"} :
          WrapperPut(p, k, quick)
    \/ \E n \in Nodes, k \in Keys : LocalPut(n, k)
    \/ \E i \in 1..Len(bus) : DeliverDel(i)
    \/ \E i \in 1..Len(bus) : DeliverDelack(i)
    \/ \E i \in 1..Len(bus) : Lose(i)

SpecDel == InitDel /\ [][NextDel]_vars

\* ------------------------------------- the broker's tables on their own
\* what a broker's group_pending may hold for a key
Entries == {None} \cup {<<t, Contact(n)>> : t \in 0..(MaxTxid - 1), n \in Nodes}

KeyLists == {<<"k1">>, <<"k2">>, <<"k1", "k2">>}

\* one announcement or request on its way to the broker
Arrivals ==
    {Msg("done", n, "broker", t, ks, Contact(n), FALSE, None) :
        n \in Nodes, t \in 0..(MaxTxid - 1), ks \in KeyLists}
    \cup {PendqMsg("B", k, t, TRUE) : k \in Keys, t \in 0..(MaxTxid - 1)}
    \cup {PendqMsg("B", k, NoTxid, FALSE) : k \in Keys}

\* broker A in the middle of a run: any tables, any one message arriving
InitTables ==
    /\ synchronous = [n \in Nodes |-> n = "B"]
    /\ is_broker = [n \in Nodes |-> n = "A"]
    /\ listening = [n \in Nodes |-> n = "A"]
    /\ \E pa \in [Keys -> {NoTxid} \cup 0..(MaxTxid - 1)] :
          pending = [n \in Nodes |->
                        IF n = "A" THEN pa ELSE [k \in Keys |-> NoTxid]]
    /\ \E ga \in [Keys -> Entries] :
          group_pending = [n \in Nodes |->
                              IF n = "A" THEN ga ELSE [k \in Keys |-> None]]
    /\ txid = [n \in Nodes |-> MaxTxid]
    /\ stale \in [Keys -> BOOLEAN]
    /\ private = [n \in Nodes |-> {}]
    /\ bus \in {<<>>} \cup {<<m>> : m \in Arrivals}
    /\ pc = [p \in Procs |-> "idle"]
    /\ loc = [p \in Procs |-> NoLoc]
    /\ inbox = [p \in Procs |-> <<>>]
    /\ sigOn = [p \in Procs |-> FALSE]
    /\ waiters = [n \in Nodes |-> {}]
    /\ tenures = 1
    /\ ev = Quiet
    /\ retained = [n \in Nodes |-> [k \in Keys |-> None]]
    /\ StoreIdle
    /\ NsIdle

NextTables ==
    \/ \E p \in Procs, k \in Keys, lock \in BOOLEAN :
          /\ is_broker[NodeOf(p)]
          /\ txid[NodeOf(p)] <= MaxTxid
          /\ StartQuery(p, k, lock, "query")
    \/ \E p \in Procs : LocalLock(p)
    \/ \E p \in Procs : ApiReturn(p)
    \/ \E i \in 1..Len(bus) : DeliverPendq(i)
    \/ \E i \in 1..Len(bus) : DeliverDone(i)
    \/ \E i \in 1..Len(bus) : DeliverAck(i)

SpecTables == InitTables /\ [][NextTables]_vars

\* ------------------------------------------- the in-process store alone
\* one thread: each operation runs to its end before the next begins
NextStore ==
    \E t \in {"s1"} :
        \/ \E k \in Keys, v \in Values, ttl \in Ttls : StorePut(t, k, v, ttl)
        \/ \E k \in Keys, v \in Values, ttl \in Ttls : AddSetdefault(t, k, v, ttl)
        \/ AddCheck(t)
        \/ \E k \in Keys : StoreDelete(t, k)
        \/ \E k \in Keys : ExpirePop(t, k)
        \/ ExpireReinsert(t)
        \/ \E k \in Keys, d \in Defaults : StoreGetTtl(t, k, d)
        \/ \E k \in Keys, d \in Defaults : StoreGet(t, k, d)
        \/ \E k \in Keys : StoreContains(t, k)
        \/ StoreClear(t)
        \/ \E timeout \in Ttls : StorePurge(t, timeout)
        \/ Tick

SpecStore == Init /\ [][NextStore]_vars

\* two threads, one add(k1, ...) each, on a key that is absent or stale
InitRace ==
    /\ InitProtocol
    /\ now = 1
    /\ store \in {st \in [Keys -> {None} \cup (Values \X {0})] :
                    st["k2"] = None}
    /\ hist = store
    /\ call = [t \in Threads |-> NoCall]
    /\ out = NoCall
    /\ NsIdle

NextRace ==
    \E t \in Threads :
        \/ \E v \in Values, ttl \in Ttls :
              call[t].op = "-" /\ AddSetdefault(t, "k1", v, ttl)
        \/ AddCheck(t)

SpecRace == InitRace /\ [][NextRace]_vars

\* one purge by thread s1 while thread s2 writes to the same store, which
\* holds any entries, fresh or stale
InitPurge ==
    /\ InitProtocol
    /\ now = 1
    /\ store \in [Keys -> {None} \cup (Values \X (0..1))]
    /\ hist = store
    /\ call = [t \in Threads |-> NoCall]
    /\ out = NoCall
    /\ NsIdle

NextPurge ==
    \/ \E timeout \in Ttls : call["s1"].op = "-" /\ PurgeBegin("s1", timeout)
    \/ PurgeIter("s1")
    \/ PurgeRecover("s1")
    \/ PurgePop("s1")
    \/ \E k \in Keys, v \in Values, ttl \in Ttls : StorePut("s2", k, v, ttl)
    \/ \E k \in Keys : StoreDelete("s2", k)

SpecPurge == InitPurge /\ [][NextPurge]_vars

\* ------------------------------------- namespace wrappers over one client
NextNs ==
    \E w \in Wrappers :
        \/ NsBuild(w)
        \/ \E k \in NsKeys, v \in Values, ttl \in Ttls : NsPut(w, k, v, ttl)
        \/ \E k \in NsKeys, v \in Values, ttl \in Ttls : NsAdd(w, k, v, ttl)
        \/ \E k \in NsKeys : NsDelete(w, k)
        \/ \E k \in NsKeys : NsExpire(w, k)
        \/ \E k \in NsKeys : NsGet(w, k)
        \/ NsClear(w)

SpecNs == Init /\ [][NextNs]_vars

\* ================================================================ claims
Holders(k) == {n \in Nodes : pending[n][k] # NoTxid}

\* a listener's query_pending has just returned None with the lock asked for
ListenerAcquired(vias) ==
    /\ ev.op = "query_pending"
    /\ ev.via \in vias
    /\ ev.rv = None
    /\ ev.lock
    /\ pending[NodeOf(ev.who)][ev.key] = ev.txid

\* C1 as stated, at the moment the broker's reply grants a listener the
\* right to compute k (no timeout, no refused connection, no failover): no
\* other node holds pending[k]
C1_SingleFlight ==
    ListenerAcquired({"reply"}) => Holders(ev.key) = {NodeOf(ev.who)}

\* C2 as stated: whenever query_pending on a non-broker returns None and
\* records pending[k] = txid, the broker holds group_pending[k] = (txid,
\* contact of that node)
C2_LockAgreement ==
    ListenerAcquired({"reply", "timeout"}) =>
        \E b \in Nodes :
            /\ is_broker[b]
            /\ group_pending[b][ev.key] = <<ev.txid, Contact(NodeOf(ev.who))>>

\* C2 amended: whenever query_pending on a non-broker returns None on the
\* broker's null reply and records pending[k] = txid, the broker recorded
\* group_pending[k] = (txid, contact of that node) when it produced that
\* reply; a None returned on a timeout or by the local fallback carries no
\* such record
C2_ReplyAgreement ==
    [][\A p \in Procs :
          (/\ pc[p] = "recv" /\ pc'[p] = "returned"
           /\ inbox[p] # <<>>
           /\ loc[p].lock
           /\ loc'[p].rv = None)
          => /\ inbox[p][1] = None
             /\ inbox[p][2] = <<loc[p].txid, Contact(NodeOf(p))>>
             /\ pending'[NodeOf(p)][loc[p].key] = loc[p].txid]_vars

\* listener B acquired k1 on the broker's reply and broker A holds its entry
C2_Witness ==
    /\ ListenerAcquired({"reply"})
    /\ NodeOf(ev.who) = "B"
    /\ group_pending["A"][ev.key] = <<ev.txid, Contact("B")>>

\* C3: pending[k] = t is never removed (or replaced) without mark_done
\* publishing the done announcement (t, [k], contact) in that step
C3_NoSilentForget ==
    [][\A n \in Nodes, k \in Keys :
          (pending[n][k] # NoTxid /\ pending'[n][k] # pending[n][k])
          => /\ ev'.op = "mark_done"
             /\ ev'.via = "publish"
             /\ NodeOf(ev'.who) = n
             /\ ev'.key = k
             /\ ev'.txid = pending[n][k]]_vars

\* C4: when the new broker's listpendq has been delivered to a node that
\* holds pending[k] = t, that node republishes its state: a pend
\* announcement carrying t, k and its contact is on its way to the broker
C4_Republish ==
    ev.op = "listpendq" =>
        \A k \in Keys :
            pending[ev.who][k] # NoTxid =>
                \E i \in 1..Len(bus) :
                    /\ bus[i].pfx = "pend"
                    /\ bus[i].src = ev.who
                    /\ bus[i].txid = pending[ev.who][k]
                    /\ \E j \in 1..Len(bus[i].keys) : bus[i].keys[j] = k
                    /\ bus[i].contact = Contact(ev.who)

\* C5: a node writes its own group_pending only while it is the broker
C5_OnlyBrokerWrites ==
    [][\A n \in Nodes :
          group_pending'[n] # group_pending[n] => is_broker[n]]_vars

InKeys(k, keys) == \E j \in 1..Len(keys) : keys[j] = k

TablesUnchanged == pending' = pending /\ group_pending' = group_pending

\* C6: query_pending on the broker.  If group_pending or pending holds k it
\* returns the holder's contact and changes no table; otherwise, when
\* expired() is true, it returns None and under optimistic_lock installs
\* group_pending[k] = (t, own contact) and pending[k] = t for one fresh txid t
\* (nothing without optimistic_lock); otherwise it returns OOB_UPDATE and
\* changes no table
C6_BrokerQuery ==
    [][\A p \in Procs :
        LET n == NodeOf(p)
            k == loc'[p].key
            held == group_pending[n][k] # None \/ pending[n][k] # NoTxid
            returns(v) == pc'[p] = "returned" /\ loc'[p].rv = v
        IN /\ (pc[p] = "idle" /\ pc'[p] # "idle" /\ is_broker[n]) =>
                /\ TablesUnchanged
                /\ held => returns(IF group_pending[n][k] # None
                                   THEN group_pending[n][k][2] ELSE Contact(n))
                /\ (~held /\ stale[k] /\ ~loc'[p].lock) => returns(None)
                /\ (~held /\ stale[k] /\ loc'[p].lock) => pc'[p] = "locallock"
                /\ (~held /\ ~stale[k]) => returns(OOB_UPDATE)
           /\ (pc[p] = "locallock" /\ pc'[p] # "locallock") =>
                /\ returns(None)
                /\ \A k2 \in Keys : pending[n][k2] # txid[n]
                /\ group_pending' = [group_pending EXCEPT
                                        ![n][k] = <<txid[n], Contact(n)>>]
                /\ pending' = [pending EXCEPT ![n][k] = txid[n]]
                /\ txid'[n] # txid[n]]_vars

\* broker A took the lock for a key: both tables carry the txid it returned
C6_Witness ==
    /\ ev.op = "query_pending" /\ ev.via = "local" /\ ev.lock /\ ev.rv = None
    /\ is_broker[NodeOf(ev.who)]
    /\ group_pending[NodeOf(ev.who)][ev.key] = <<ev.txid, Contact(NodeOf(ev.who))>>
    /\ pending[NodeOf(ev.who)][ev.key] = ev.txid

InQuery(p) == pc[p] \in {"poll", "final", "recv"}

\* C7: a listener's query_pending always returns, whether or not a reply
\* arrives; it publishes its pendq at most 1 + 3 times, republishes only on
\* a timeout while expired() holds and always the same request; on a timeout
\* without reply it returns None when expired() holds and OOB_UPDATE
\* otherwise
C7_BoundedRetries ==
    /\ \A p \in Procs : InQuery(p) ~> pc[p] = "returned"
    /\ [](\A p \in Procs : loc[p].npub <= 1 + QueryRetries)
    /\ [](ev.op = "query_pending" /\ ev.via = "timeout" =>
            ev.rv = IF stale[ev.key] THEN None ELSE OOB_UPDATE)
    /\ [][\A p \in Procs :
            (loc[p].npub >= 1 /\ loc'[p].npub > loc[p].npub) =>
                /\ loc'[p].npub = loc[p].npub + 1
                /\ stale[loc[p].key]
                /\ inbox[p] = <<>>
                /\ \/ bus' = bus
                   \/ \E i \in 1..Len(bus') :
                        /\ bus'[i] = PendqMsg(NodeOf(p), loc[p].key,
                                              loc[p].txid, loc[p].lock)
                        /\ RemoveAt(bus', i) = bus]_vars

\* a call published its request four times, got no reply and returned None
C7_Witness ==
    /\ ev.op = "query_pending" /\ ev.via = "timeout" /\ ev.rv = None
    /\ loc[ev.who].npub = 1 + QueryRetries
    /\ pc[ev.who] = "returned"

C9_DeletePropagates ==
    [][/\ ev'.op = "delete" => ev'.key \notin private'[NodeOf(ev'.who)]
       /\ ev'.op = "on_deletion" =>
            /\ ev'.key \notin private'[ev'.who]
            /\ private' = [private EXCEPT ![ev'.who] = @ \ {ev'.key}]]_vars

\* A's del reached peer B, which held the key: now neither holds it
C9_Witness ==
    /\ ev.op = "on_deletion"
    /\ ev.rv = <<"hit">>
    /\ ev.who = "B" /\ ev.via = "A"
    /\ ev.key \notin private["B"]
    /\ ev.key \notin private["A"]

\* C10: in synchronous mode fire_deletion returns a waiter subscribed to
\* delack for its txid, and the del is published after that subscription
C10_SyncWaiter ==
    (ev.op = "delete" /\ synchronous[NodeOf(ev.who)]) =>
        /\ ev.rv = None
        /\ ev.txid \in waiters[NodeOf(ev.who)]
        /\ ev.via \in {"publish", "refused"}

\* C11: clear() through the coherent client empties the wrapped client and
\* broadcasts a del carrying the CLEAR sentinel (unless the bus refuses the
\* connection), on whose delivery the peers empty their private caches
C11_ClearPropagates ==
    ev.op = "clear" =>
        /\ private[NodeOf(ev.who)] = {}
        /\ ev.rv = None
        /\ \/ ev.via = "refused"
           \/ \E i \in 1..Len(bus) :
                /\ bus[i].pfx = "del"
                /\ bus[i].src = NodeOf(ev.who)
                /\ bus[i].keys = <<"CLEAR">>

\* C14: fire_deletion, mark_done and query_pending never hand an exception
\* to their caller, in either mode and whatever the pending tables hold
C14_NeverRaises ==
    ev.op \in {"delete", "mark_done", "query_pending"} => ev.via # "raise"

\* C12: when expired() is false as undefer is entered, put_coherently
\* returns without a query (no txid drawn, nothing published), without
\* running the callable, without a done announcement, and pending and
\* group_pending stay as they are on every node
C12_SkipFrame ==
    [][(ev'.op = "put_coherently" /\ ev'.via = "skip") =>
          /\ ~stale[ev'.key]
          /\ ev'.rv = <<"NONE">>
          /\ TablesUnchanged
          /\ bus' = bus
          /\ txid' = txid
          /\ private' = private
          /\ pc'[ev'.who] = "idle"
          /\ loc'[ev'.who].calls = 0
          /\ ~loc'[ev'.who].computed]_vars

\* a call was skipped while the peer held the lock and a request was in flight
C12_Witness ==
    /\ ev.op = "put_coherently" /\ ev.via = "skip"
    /\ \E n \in Nodes : pending[n][ev.key] # NoTxid
    /\ bus # <<>>

\* C13: undefer runs the callable at most once, and only as the step that
\* follows query_pending(key, expired, timeout, True) returning None;
\* computed is set exactly when the callable ran; done() calls mark_done
\* exactly when computed is set
C13_ComputeOnce ==
    /\ [](\A p \in Procs :
            /\ loc[p].calls <= 1
            /\ loc[p].computed <=> loc[p].calls = 1
            /\ pc[p] \in {"put", "done"} => loc[p].computed)
    /\ [][\A p \in Procs :
            /\ loc'[p].calls # loc[p].calls /\ loc'[p].calls > 0 =>
                  /\ pc[p] = "returned"
                  /\ loc[p].op = "put_coherently" /\ loc[p].lock
                  /\ loc[p].rv = None
            /\ (pc[p] = "returned" /\ loc[p].op = "put_coherently"
                /\ loc[p].rv # None /\ pc'[p] # pc[p]) =>
                  /\ pc'[p] = "idle"
                  /\ ev'.op # "mark_done"
                  /\ bus' = bus /\ TablesUnchanged
            /\ (loc[p].computed /\ ~loc'[p].computed) =>
                  ev'.op = "mark_done" /\ ev'.who = p]_vars

\* a call ran its callable once after a null answer and has reached done()
C13_Witness ==
    \E p \in Procs :
        /\ pc[p] = "done"
        /\ loc[p].calls = 1
        /\ loc[p].rv = None
        /\ pending[NodeOf(p)][loc[p].key] = loc[p].txid

\* C15: add(k, v, ttl) on the in-process store, now being the clock the
\* call read: an entry for k with expiry >= now is left as it is and add
\* answers False; otherwise (no entry, or expiry < now) the entry becomes
\* (v, now + ttl), nothing else changes, and add answers True
C15_AddContract ==
    [][out'.op = "add" =>
         LET k == out'.key
             e == store[k]
         IN IF e # None /\ e[2] >= out'.now
            THEN store' = store /\ out'.rv = False
            ELSE /\ store' = [store EXCEPT ![k] = <<out'.val, out'.now + out'.arg>>]
                 /\ out'.rv = True]_vars

\* add declined to replace an entry whose remaining ttl is exactly 0
C15_Witness ==
    /\ out.op = "add" /\ out.rv = False
    /\ out.cur # None /\ out.cur[2] = out.now
    /\ store[out.key] = out.cur

\* C16: two threads add the same absent or stale key concurrently: exactly
\* one add answers True, the other False, and the store holds the entry of
\* the add that answered True
C16_AtomicAdd ==
    (\A t \in Threads : call[t].op = "add" /\ Idle(t)) =>
        \E w \in Threads :
            /\ call[w].rv = True
            /\ \A t \in Threads \ {w} : call[t].rv = False
            /\ store["k1"] = <<call[w].val, call[w].now + call[w].arg>>

\* C17: right after expire(k) the key is as it was when absent; when it was
\* present it is present with the same value but stale: getTtl answers the
\* old value, get without default raises a miss, contains is false and an
\* add would answer True
C17_ExpireStale ==
    out.op = "expire" =>
        LET k == out.key
            e == store[k]
        IN IF out.cur = None
           THEN e = None
           ELSE /\ e # None /\ e[1] = out.cur[1]
                /\ GetTtlResult(e, NoDefault, now)[1] = out.cur[1]
                /\ GetResult(e, NoDefault, now) = Miss
                /\ ContainsResult(e, 0, now) = False
                /\ AddOverrides(e, now)

\* C18: get(k) without default raises a miss exactly when k is absent or
\* stale (remaining ttl < 0) and answers the stored value otherwise;
\* get(k, default) never raises and answers the default when k is absent
\* or stale
C18_GetContract ==
    out.op = "get" =>
        LET e == out.cur
            missing == e = None \/ e[2] - out.now < 0
        IN out.rv = IF ~missing THEN <<e[1]>>
                    ELSE IF out.dflt = NoDefault THEN Miss
                    ELSE <<out.dflt>>

\* C19: after any sequence of put, add, delete, expire, clear and purge,
\* getTtl(k) answers (v, e - now) exactly when the operations so far left
\* an entry (v, e) installed for k; otherwise it raises a miss, or answers
\* (default, -1) when a default is given
C19_GetTtlHistory ==
    out.op = "getTtl" =>
        LET h == hist[out.key]
        IN out.rv = IF h # None THEN <<h[1], h[2] - out.now>>
                    ELSE IF out.dflt = NoDefault THEN Miss
                    ELSE <<out.dflt, -1>>

\* getTtl answered a negative ttl for an entry an add installed over a stale one
C19_Witness ==
    /\ out.op = "getTtl"
    /\ Len(out.rv) = 2 /\ out.rv[2] < 0
    /\ out.rv[1] = "v2"
    /\ \E t \in Threads : call[t] = out

\* C20: purge(timeout) removes exactly the entries whose expiry is strictly
\* older than now - timeout; every other entry, one expiring exactly at
\* now - timeout included, keeps its value and expiry
C20_PurgeFrame ==
    [][out'.op = "purge" =>
         \A k \in Keys :
            store'[k] = IF store[k] # None /\ store[k][2] < out'.now - out'.arg
                        THEN None
                        ELSE store[k]]_vars

\* a purge removed an entry and kept one expiring exactly at now - timeout
C20_Witness ==
    /\ out.op = "purge" /\ out.rv = <<"some">>
    /\ \E k \in Keys : store[k] # None /\ store[k][2] = out.now - out.arg

\* C21: a purge whose scan was interrupted by a change of the store
\* surfaces no error, and every entry of the snapshot that is older than
\* now - timeout and was not rewritten since is gone when purge returns
C21_PurgeRecovers ==
    (out.op = "purge" /\ out.cur.via = "recover") =>
        /\ out.rv # <<"UnboundLocalError">>
        /\ \A k \in Keys :
              (/\ out.cur.snap[k] # None
               /\ out.cur.snap[k][2] < out.now - out.arg)
              => store[k] # out.cur.snap[k]

C23_ClearObserved ==
    [][(wrap'["wa2"].built /\ ~wrap["wa2"].built /\ wrap["wa"].built)
         => wrap'["wa2"].revision = wrap["wa"].revision]_vars

\* C24: a put in quick-refresh mode returns with its value in the wrapped
\* client and the done announcement for the key published after it
C24_QuickRefreshDone ==
    (ev.op = "put" /\ ev.lock) =>
        /\ ev.key \in private[NodeOf(ev.who)]
        /\ ev.rv = None
        /\ ev.via = "publish"

\* C25: put_coherently on a synchronous client: a call whose callable was
\* invoked leaves only through mark_done, with the done announcement
\* published, and mark_done comes after client.put on the normal path; a
\* call whose undefer returned NONE puts nothing and publishes nothing
C25_DoneOnEveryExit ==
    [][\A p \in Procs :
          /\ (pc[p] \in {"put", "done"} /\ pc'[p] = "idle") =>
                /\ ev'.op = "mark_done" /\ ev'.who = p
                /\ ev'.key = loc[p].key
                /\ ev'.via = "publish"
          /\ (pc[p] = "put" /\ pc'[p] # "put") =>
                /\ pc'[p] = "done"
                /\ loc[p].key \in private'[NodeOf(p)]
                /\ ev'.op # "mark_done"
          /\ (pc[p] = "returned" /\ loc[p].op = "put_coherently"
              /\ loc[p].rv # None /\ pc'[p] # pc[p]) =>
                /\ pc'[p] = "idle"
                /\ private' = private
                /\ bus' = bus
                /\ ev'.op # "mark_done"]_vars

\* C26: undefer ends by returning, never by an exception of its own; with
\* wait_time = 0 it ends after the one query_pending call it made, with
\* NONE whenever the answer was not None
C26_UndeferReturns ==
    [][\A p \in Procs :
          (pc[p] = "returned" /\ loc[p].op = "put_coherently"
           /\ pc'[p] # pc[p]) =>
             /\ ev'.via # "raise"
             /\ pc'[p] \in {"idle", "put", "done"}
             /\ loc[p].rv # None => pc'[p] = "idle"]_vars

\* C27: on the broker a lock is taken by atomic insert: whoever installs an
\* entry for a key in group_pending, a local query_pending or the handler
\* of a pendq, installs it only where no entry was held, so that at most
\* one of two concurrent requests acquires the key
C27_AtomicSelfLock ==
    [][\A n \in Nodes, k \in Keys :
          (/\ is_broker[n]
           /\ group_pending'[n][k] # None
           /\ group_pending'[n][k] # group_pending[n][k])
          => group_pending[n][k] = None]_vars

\* C28: the broker handling pendq(key, txid, contact, lock) replies with the
\* entry group_pending held for the key before the request (null for none);
\* the entry becomes (txid, contact) exactly when lock is set and none was
\* held; an entry held is kept and no other key or table is touched
C28_PendqHandler ==
    [][ev'.op = "on_pending_query" =>
          LET n == ev'.who
              k == ev'.key
              old == group_pending[n][k]
          IN /\ ev'.rv = old
             /\ \E i \in 1..Len(bus') :
                   /\ bus'[i].pfx = "ack" /\ bus'[i].dst = ev'.via
                   /\ bus'[i].txid = ev'.txid /\ bus'[i].reply = old
             /\ group_pending'[n][k] =
                   IF ev'.lock /\ old = None
                   THEN <<ev'.txid, Contact(ev'.via)>> ELSE old
             /\ \A m \in Nodes, j \in Keys :
                   (m # n \/ j # k) => group_pending'[m][j] = group_pending[m][j]
             /\ pending' = pending]_vars

\* a lock request found no entry and was granted
C28_Witness ==
    /\ ev.op = "on_pending_query" /\ ev.lock /\ ev.rv = None
    /\ group_pending[ev.who][ev.key] = <<ev.txid, Contact(ev.via)>>
    /\ \E j \in Keys : j # ev.key /\ group_pending[ev.who][j] # None

\* C29: when query_pending(k, optimistic_lock = True) on a listener returns
\* OOB_UPDATE or a contact, no broker holds an entry for k carrying the
\* txid and contact of that call
C29_NoOrphanedLock ==
    (/\ ev.op = "query_pending" /\ ev.lock
     /\ ev.via \in {"reply", "timeout"}
     /\ ev.rv # None)
    => \A n \in Nodes :
          group_pending[n][ev.key] # <<ev.txid, Contact(NodeOf(ev.who))>>

\* C30: a listener whose request was granted is not told that a peer is
\* computing: when the reply its call reads is the broker's entry for its own
\* (txid, contact), i.e. the answer to a retransmitted copy of the request
\* that an earlier copy had already been granted, query_pending returns None
C30_RetransmitKeepsLock ==
    [][\A p \in Procs :
          (/\ pc[p] = "recv" /\ pc'[p] = "returned"
           /\ loc[p].lock
           /\ inbox[p] # <<>>
           /\ inbox[p][1] = <<loc[p].txid, Contact(NodeOf(p))>>)
          => loc'[p].rv = None]_vars

\* C31: a node that enters the broker role again starts with no entry of
\* group_pending kept from the tenure it left
C31_NoRetainedLocks ==
    [][\A n \in Nodes, k \in Keys :
          (~is_broker[n] /\ is_broker'[n] /\ retained[n][k] # None)
          => group_pending'[n][k] # retained[n][k]]_vars

\* C32: the revision read under (namespace, 'REVMARK') never decreases, a
\* clear() leaves there at least the revision it moved to, and a wrapper
\* constructed for a namespace is not given a revision that a wrapper of
\* that namespace has already cleared (every revision below the revision of
\* a built wrapper was cleared by it)
C32_RevmarkMonotonic ==
    [][\A w \in Wrappers :
          LET mark == RevKey(Namespace(w)) IN
          /\ RevisionRead(nstore'[mark]) >= RevisionRead(nstore[mark])
          /\ (wrap[w].built /\ wrap'[w].revision > wrap[w].revision)
               => RevisionRead(nstore'[mark]) >= wrap'[w].revision
          /\ (~wrap[w].built /\ wrap'[w].built)
               => \A v \in Wrappers :
                     (Namespace(v) = Namespace(w) /\ wrap[v].built)
                     => wrap'[w].revision >= wrap[v].revision]_vars

====
